---------------------------- MODULE Spec2Model ----------------------------
(***************************************************************************)
(* Model of the numerical kernels of the numba tutorial notebooks: the     *)
(* pressure-Poisson relaxation (explicit-loop and NumPy slice versions),   *)
(* the source-term builder velocity_term and the cavity_flow driver.       *)
(*                                                                         *)
(* Numbers.  The code computes in float64.  The model computes in binary   *)
(* fixed point: a grid value x of the code is the integer x * One, sums    *)
(* and differences are exact, and a product or quotient is rounded to the  *)
(* nearest representable value, as a floating-point operation rounds its   *)
(* result.  NaN and the infinities only arise in the code at the division  *)
(* of the convergence check; they are modelled there explicitly.           *)
(*                                                                         *)
(* Grids.  A grid of shape (I, J) is a function on (0..I-1) \X (0..J-1),   *)
(* first index the row.  Python's negative indices are resolved by At.     *)
(***************************************************************************)
EXTENDS Integers, Sequences, FiniteSets, TLC

(* ---------------------------- bounds ---------------------------------- *)

\* binary digits kept after the point
FracBits == 4

\* largest grid dimension of the inputs (the smallest is 3)
MaxDim == 4

\* largest coefficient of the input grids p and b
MaxCoef == 1

\* largest number of timesteps asked of cavity_flow
MaxNt == 2

\* sweeps after which the model stops following the NumPy loop
MaxSweeps == 503

(* ---------------------- program constants ----------------------------- *)

\* "n <= 500" / "if n == 500"
Cap == 500

\* "if n % 10 == 0"
CheckEvery == 10

(* ------------------------ fixed point --------------------------------- *)

One == 2 ^ FracBits

\* x / d rounded to the nearest integer, halves upward (d > 0)
RoundDiv(x, d) == (2 * x + d) \div (2 * d)

\* the product of two fixed-point values
FMul(x, y) == RoundDiv(x * y, One)

\* the quotient of two fixed-point values (y # 0)
FDiv(x, y) == IF y > 0 THEN RoundDiv(x * One, y) ELSE RoundDiv((0 - x) * One, 0 - y)

\* the literal 0.25 (.25)
Quarter == One \div 4

(* --------------------------- grids ------------------------------------ *)

\* Python index k of an axis of length len
At(len, k) == IF k < 0 THEN len + k ELSE k

Cells(I, J) == (0 .. I - 1) \X (0 .. J - 1)

\* range(lo, hi) as a sequence
Range(lo, hi) == [k \in 1 .. (IF hi > lo THEN hi - lo ELSE 0) |-> lo + k - 1]

\* the cells visited by "for i in range(r0, r1): for j in range(c0, c1)", in order
RECURSIVE LoopCells(_, _, _, _)
LoopCells(r0, r1, c0, c1) ==
    IF r0 >= r1 THEN << >>
    ELSE [k \in 1 .. (IF c1 > c0 THEN c1 - c0 ELSE 0) |-> <<r0, c0 + k - 1>>]
         \o LoopCells(r0 + 1, r1, c0, c1)

RECURSIVE SumSq(_, _)
SumSq(g, cs) ==
    IF cs = << >> THEN 0 ELSE g[Head(cs)] * g[Head(cs)] + SumSq(g, Tail(cs))

\* numpy.sum(g**2), in units of One^-2
SumSquares(g, I, J) == SumSq(g, LoopCells(0, I, 0, J))

\* p - pn
GridSub(g, h) == [c \in DOMAIN g |-> g[c] - h[c]]

(* --------------------- the convergence measure ------------------------ *)
(* iter_diff is kept as the pair under the square root, or as the float   *)
(* special it is: "init" is l2_target + 1, "val" is sqrt(num/den) with    *)
(* den > 0, "inf" is x/0 with x > 0, "nan" is 0/0, "same" is l2_target   *)
(* itself (l2_target + 1 rounded back to l2_target).                      *)

\* iter_diff starting at 0 instead of l2_target + 1
InitDiffZero == [tag |-> "val", num |-> 0, den |-> 1]

InitDiff == [tag |-> "init", num |-> 0, den |-> 1]

\* numpy.sqrt(numpy.sum((p - pn)**2)/numpy.sum(pn**2)) under IEEE division
RelChange(pv, pnv, I, J) ==
    LET num == SumSquares(GridSub(pv, pnv), I, J)
        den == SumSquares(pnv, I, J)
    IN  IF den > 0 THEN [tag |-> "val", num |-> num, den |-> den]
        ELSE IF num > 0 THEN [tag |-> "inf", num |-> num, den |-> 0]
        ELSE [tag |-> "nan", num |-> 0, den |-> 0]

\* iter_diff > l2_target, l2_target the rational l2[1]/l2[2] with l2[2] > 0
Above(d, l2) ==
    CASE d.tag = "init" -> TRUE
      [] d.tag = "inf"  -> TRUE
      [] d.tag = "nan"  -> FALSE
      [] d.tag = "same" -> FALSE
      [] OTHER          -> \/ l2[1] < 0
                           \/ d.num * l2[2] * l2[2] > l2[1] * l2[1] * d.den


(* ============================ state ================================== *)

VARIABLES
    impl,       \* the pressure_poisson running: "jit" or "numpy"
    shape,      \* (I, J) = b.shape
    p,          \* the pressure grid, the caller's buffer
    pn,         \* the copy of p taken at the start of the sweep
    b,          \* the source grid
    l2_target,  \* the tolerance, a rational <<numerator, denominator>>
    iter_diff,  \* the last computed relative change
    n,          \* the function's counter n
    pc,         \* "loop", "returned" or "raised"
    sweeps,     \* number of loop bodies executed so far (history)
    checks,     \* number of convergence checks begun so far (history)
    above,      \* number of checks that gave a value above l2_target (history)
    p0,         \* the grid p as it was passed in (history)
    b0          \* the grid b as it was passed in (history)

ppVars == <<impl, shape, p, pn, b, l2_target, iter_diff, n, pc, sweeps, checks, above,
           p0, b0>>

VARIABLES
    stage,      \* the statement of cavity_flow / the caller to run next
    u, v,       \* the velocity grids
    un, vn,     \* their copies taken at the start of the timestep
    rho, nu,    \* density, viscosity
    dt, dx,     \* timestep, grid spacing
    nt,         \* number of timesteps asked for
    rtol,       \* the tolerance cavity_flow passes on
    step,       \* cavity_flow's loop counter n
    log,        \* the stages run in the current timestep, in order (history)
    pRet        \* the p returned by the latest pressure_poisson call (history)

cfVars == <<stage, u, v, un, vn, rho, nu, dt, dx, nt, rtol, step, log, pRet>>

VARIABLES
    call,       \* which call of pressure_poisson a two-call run is in (0: none)
    first       \* what the first call of a two-call run returned (history)

hVars == <<call, first>>

VARIABLES
    global_a,   \* the module-level name a
    compiled,   \* add_to_a's compiled versions: signature -> the a built in, or NotCompiled
    events      \* the cells run so far: assignments to a, calls, recompiles (history)

jitVars == <<global_a, compiled, events>>

VARIABLES
    kernel,     \* the library function called ("none": no call)
    input,      \* its arguments as they were passed (history)
    mem,        \* the array the call writes: its output buffer, or the array updated in place
    todo,       \* the loop iterations still to run, in order
    status      \* "idle", "running", "returned" or "raised"

libVars == <<kernel, input, mem, todo, status>>

otherVars == <<hVars, jitVars, libVars>>

vars == <<ppVars, cfVars, otherVars>>

(* ============================ inputs ================================= *)

\* the grid dimensions tried: the smallest the stencil allows, and the largest
Dims == {3, MaxDim}

Coefs == 0 .. MaxCoef

\* the input grids: planes a*i + c*j - d over the grid, in whole units
InputGrid(I, J, a, c, d) ==
    [cell \in Cells(I, J) |-> One * (a * cell[1] + c * cell[2] - d)]

\* the tolerances tried: negative, zero, one half, one
L2Targets == {<<0 - 1, 1>>, <<0, 1>>, <<1, 2>>, <<1, 1>>}

\* a lone call of pressure_poisson: no velocity field
NoFlow ==
    /\ stage = "pressure_only"
    /\ u = << >> /\ v = << >> /\ un = << >> /\ vn = << >>
    /\ rho = 0 /\ nu = 0 /\ dt = 0 /\ dx = 0
    /\ nt = 0 /\ rtol = <<0, 1>> /\ step = 0 /\ log = << >> /\ pRet = << >>

\* no two-call run in progress
NoFirst == [p |-> << >>, sweeps |-> 0, converged |-> FALSE]

NoTwoCalls ==
    /\ call = 0
    /\ first = NoFirst

\* a signature add_to_a has not been compiled for
NotCompiled == [built |-> FALSE, a |-> 0]

\* a version compiled while the global a was x
CompiledWith(x) == [built |-> TRUE, a |-> x]

\* the argument types add_to_a is called with
Signatures == {"int64", "float64"}

\* the notebook cells outside the flow solver are not run
NoGlobals ==
    /\ global_a = 0
    /\ compiled = [ty \in Signatures |-> NotCompiled]
    /\ events = << >>

\* no ufunc, generalized ufunc or particle function is called
NoKernel ==
    /\ kernel = "none"
    /\ input = << >>
    /\ mem = << >>
    /\ todo = << >>
    /\ status = "idle"

NoLibrary ==
    /\ NoGlobals
    /\ NoKernel

NoOther ==
    /\ NoTwoCalls
    /\ NoLibrary

\* the arguments of a call pressure_poisson(p, b, l2_target), and its locals
\* at the loop head (pn and n are not yet bound there in the explicit-loop
\* version and n is not in the NumPy version; they are given p and 0)
InitCall ==
    /\ shape \in Dims \X Dims
    /\ \E a, c \in Coefs : p = InputGrid(shape[1], shape[2], a, c, a)
    /\ \E e \in Coefs : b = InputGrid(shape[1], shape[2], 0, e, 0)
    /\ l2_target \in L2Targets
    /\ pn = p
    /\ iter_diff = InitDiff
    /\ n = 0
    /\ pc = "loop"
    /\ sweeps = 0
    /\ checks = 0
    /\ above = 0
    /\ p0 = p
    /\ b0 = b

\* the history counters after a loop body run with counter value k
CountCheck(k, d) ==
    /\ sweeps' = sweeps + 1
    /\ checks' = IF k % CheckEvery = 0 THEN checks + 1 ELSE checks
    /\ above' = IF k % CheckEvery = 0 /\ d.tag \in {"val", "inf"} /\ Above(d, l2_target)
                THEN above + 1 ELSE above

(* ============== pressure_poisson, explicit loops (jitted) ============= *)

\* the interior loop reading the array it writes (pn aliasing p)
RECURSIVE JitInteriorInPlace(_, _, _, _)
JitInteriorInPlace(pcur, pnv, bv, cells) ==
    IF cells = << >> THEN pcur
    ELSE LET i  == Head(cells)[1]
             j  == Head(cells)[2]
             p_ == pcur[<<i + 1, j>>] + pcur[<<i - 1, j>>]
                   + pcur[<<i, j + 1>>] + pcur[<<i, j - 1>>]
         IN  JitInteriorInPlace(
                 [pcur EXCEPT ![<<i, j>>] = FMul(Quarter, p_) - bv[<<i, j>>]],
                 pnv, bv, Tail(cells))

\* "for i in range(1, I-1): for j in range(1, J-1): p_ = ...; p[i, j] = ..."
\* pcur is the array being written, pnv the copy being read
RECURSIVE JitInterior(_, _, _, _)
JitInterior(pcur, pnv, bv, cells) ==
    IF cells = << >> THEN pcur
    ELSE LET i  == Head(cells)[1]
             j  == Head(cells)[2]
             p_ == pnv[<<i + 1, j>>] + pnv[<<i - 1, j>>]
                   + pnv[<<i, j + 1>>] + pnv[<<i, j - 1>>]
         IN  JitInterior([pcur EXCEPT ![<<i, j>>] = FMul(Quarter, p_) - bv[<<i, j>>]],
                         pnv, bv, Tail(cells))

\* the column loop with the right edge mirrored instead of zeroed
RECURSIVE JitColumnsBCMirror(_, _, _)
JitColumnsBCMirror(g, J, is) ==
    IF is = << >> THEN g
    ELSE LET i  == Head(is)
             g1 == [g EXCEPT ![<<i, 0>>] = g[<<i, 1>>]]
             g2 == [g1 EXCEPT ![<<i, At(J, 0 - 1)>>] = g1[<<i, At(J, 0 - 2)>>]]
         IN  JitColumnsBCMirror(g2, J, Tail(is))

\* "for i in range(I): p[i, 0] = p[i, 1]; p[i, -1] = 0"
RECURSIVE JitColumnsBC(_, _, _)
JitColumnsBC(g, J, is) ==
    IF is = << >> THEN g
    ELSE LET i  == Head(is)
             g1 == [g EXCEPT ![<<i, 0>>] = g[<<i, 1>>]]
             g2 == [g1 EXCEPT ![<<i, At(J, 0 - 1)>>] = 0]
         IN  JitColumnsBC(g2, J, Tail(is))

\* "for j in range(J): p[0, j] = p[1, j]; p[-1, j] = p[-2, j]"
RECURSIVE JitRowsBC(_, _, _)
JitRowsBC(g, I, js) ==
    IF js = << >> THEN g
    ELSE LET j  == Head(js)
             g1 == [g EXCEPT ![<<0, j>>] = g[<<1, j>>]]
             g2 == [g1 EXCEPT ![<<At(I, 0 - 1), j>>] = g1[<<At(I, 0 - 2), j>>]]
         IN  JitRowsBC(g2, I, Tail(js))

\* the boundary conditions of one sweep
JitBoundary(g, I, J) == JitRowsBC(JitColumnsBC(g, J, Range(0, I)), I, Range(0, J))

\* a loop body that relaxes a private copy and leaves the caller's array alone
JitBodyOnCopy(pv, bv, I, J) == pv

\* p after one loop body, from p at its start
JitBody(pv, bv, I, J) ==
    JitBoundary(JitInterior(pv, pv, bv, LoopCells(1, I - 1, 1, J - 1)), I, J)

\* the loop condition with the cap off by one
JitGuardStrict == Above(iter_diff, l2_target) /\ n < Cap

\* "while iter_diff > l2_target and n <= 500"
JitGuard == Above(iter_diff, l2_target) /\ n <= Cap

\* state at the loop head of a call pressure_poisson(p, b, l2_target)
InitJit ==
    /\ impl = "jit"
    /\ InitCall
    /\ NoFlow
    /\ NoOther

\* one loop body whose convergence check, if any, completes
JitSweep ==
    /\ impl = "jit"
    /\ pc = "loop"
    /\ JitGuard
    /\ pn' = p
    /\ p' = JitBody(p, b, shape[1], shape[2])
    /\ iter_diff' = IF n % CheckEvery = 0
                    THEN RelChange(p', pn', shape[1], shape[2])
                    ELSE iter_diff
    /\ n' = n + 1
    /\ CountCheck(n, iter_diff')
    /\ UNCHANGED <<impl, shape, b, l2_target, pc, p0, b0>>
    /\ UNCHANGED <<cfVars, otherVars>>

\* one loop body whose check divides by numpy.sum(pn**2) = 0 in compiled
\* code, where a float division by zero raises ZeroDivisionError
JitSweepRaise ==
    /\ impl = "jit"
    /\ pc = "loop"
    /\ JitGuard
    /\ n % CheckEvery = 0
    /\ SumSquares(p, shape[1], shape[2]) = 0
    /\ pn' = p
    /\ p' = JitBody(p, b, shape[1], shape[2])
    /\ pc' = "raised"
    /\ sweeps' = sweeps + 1
    /\ checks' = checks + 1
    /\ UNCHANGED <<impl, shape, b, l2_target, iter_diff, n, above, p0, b0>>
    /\ UNCHANGED <<cfVars, otherVars>>

\* the loop condition fails: "return p"
JitReturn ==
    /\ impl = "jit"
    /\ pc = "loop"
    /\ ~JitGuard
    /\ pc' = "returned"
    /\ UNCHANGED <<impl, shape, p, pn, b, l2_target, iter_diff, n, sweeps, checks, above,
                   p0, b0>>
    /\ UNCHANGED <<cfVars, otherVars>>

NextJit == JitSweep \/ JitSweepRaise \/ JitReturn

SpecJit == InitJit /\ [][NextJit]_vars

\* a call whose tolerance is so large (2^53 or more in float64; the value
\* here stands for it) that "iter_diff = l2_target + 1" rounds to l2_target
InitJitAbsorbed ==
    /\ impl = "jit"
    /\ shape \in Dims \X Dims
    /\ \E a, c \in Coefs : p = InputGrid(shape[1], shape[2], a, c, a)
    /\ \E e \in Coefs : b = InputGrid(shape[1], shape[2], 0, e, 0)
    /\ l2_target = <<2 ^ 30, 1>>
    /\ iter_diff = [tag |-> "same", num |-> 0, den |-> 1]
    /\ pn = p /\ n = 0 /\ pc = "loop"
    /\ sweeps = 0 /\ checks = 0 /\ above = 0
    /\ p0 = p /\ b0 = b
    /\ NoFlow
    /\ NoOther

\* the explicit-loop pressure_poisson under any finite tolerance
SpecJitAnyTol == (InitJit \/ InitJitAbsorbed) /\ [][NextJit]_vars


(* ================ pressure_poisson, NumPy slices ====================== *)

\* the bounds of the Python slice lo:hi of an axis of length len; an omitted
\* lo is given as 0, an omitted hi as len
SliceLo(len, lo) == At(len, lo)

SliceHi(len, hi) == At(len, hi)

\* g[r[1]:r[2], c[1]:c[2]] of a grid of shape (I, J), indexed from (0, 0)
Slice(g, I, J, r, c) ==
    [cell \in Cells(SliceHi(I, r[2]) - SliceLo(I, r[1]), SliceHi(J, c[2]) - SliceLo(J, c[1]))
        |-> g[<<SliceLo(I, r[1]) + cell[1], SliceLo(J, c[1]) + cell[2]>>]]

\* g after g[r[1]:r[2], c[1]:c[2]] = val
SetSlice(g, I, J, r, c, val) ==
    [cell \in DOMAIN g |->
        IF /\ SliceLo(I, r[1]) <= cell[1] /\ cell[1] < SliceHi(I, r[2])
           /\ SliceLo(J, c[1]) <= cell[2] /\ cell[2] < SliceHi(J, c[2])
        THEN val[<<cell[1] - SliceLo(I, r[1]), cell[2] - SliceLo(J, c[1])>>]
        ELSE g[cell]]

\* elementwise g + h, g - h is GridSub, k * g
GridAdd(g, h) == [c \in DOMAIN g |-> g[c] + h[c]]

GridScale(k, g) == [c \in DOMAIN g |-> FMul(k, g[c])]

\* g after g[:, k] = g[:, m]
CopyColumn(g, I, J, k, m) ==
    [cell \in DOMAIN g |-> IF cell[2] = At(J, k) THEN g[<<cell[1], At(J, m)>>] ELSE g[cell]]

\* g after g[k, :] = g[m, :]
CopyRow(g, I, J, k, m) ==
    [cell \in DOMAIN g |-> IF cell[1] = At(I, k) THEN g[<<At(I, m), cell[2]>>] ELSE g[cell]]

\* g after g[k, :] = x
FillRow(g, I, J, k, x) ==
    [cell \in DOMAIN g |-> IF cell[1] = At(I, k) THEN x ELSE g[cell]]

\* g after g[:, k] = x
FillColumn(g, I, J, k, x) ==
    [cell \in DOMAIN g |-> IF cell[2] = At(J, k) THEN x ELSE g[cell]]

\* "p[1:-1,1:-1] = (.25 * (pn[1:-1, 2:] + pn[1:-1, :-2] + pn[2:, 1:-1]
\*                  + pn[:-2, 1:-1]) - b[1:-1, 1:-1])"
NpInterior(pv, pnv, bv, I, J) ==
    SetSlice(pv, I, J, <<1, 0 - 1>>, <<1, 0 - 1>>,
        GridSub(GridScale(Quarter,
                    GridAdd(GridAdd(GridAdd(Slice(pnv, I, J, <<1, 0 - 1>>, <<2, J>>),
                                            Slice(pnv, I, J, <<1, 0 - 1>>, <<0, 0 - 2>>)),
                                    Slice(pnv, I, J, <<2, I>>, <<1, 0 - 1>>)),
                            Slice(pnv, I, J, <<0, 0 - 2>>, <<1, 0 - 1>>))),
                Slice(bv, I, J, <<1, 0 - 1>>, <<1, 0 - 1>>)))

\* the boundary conditions with the last row mirrored instead of zeroed
NpBoundaryMirror(g, I, J) ==
    LET g1 == CopyColumn(g, I, J, 0, 1)
        g2 == CopyColumn(g1, I, J, 0 - 1, 0 - 2)
        g3 == CopyRow(g2, I, J, 0, 1)
    IN  CopyRow(g3, I, J, 0 - 1, 0 - 2)

\* "p[:, 0] = p[:, 1]; p[:, -1] = p[:, -2]; p[0, :] = p[1, :]; p[-1, :] = 0"
NpBoundary(g, I, J) ==
    LET g1 == CopyColumn(g, I, J, 0, 1)
        g2 == CopyColumn(g1, I, J, 0 - 1, 0 - 2)
        g3 == CopyRow(g2, I, J, 0, 1)
    IN  FillRow(g3, I, J, 0 - 1, 0)

\* p after one loop body, from p at its start
NpBody(pv, bv, I, J) == NpBoundary(NpInterior(pv, pv, bv, I, J), I, J)

\* "while iter_diff > l2_target"
NpGuard == Above(iter_diff, l2_target)

\* "n = 0", the first statement of the loop body
NpCounter(k) == 0

InitNp ==
    /\ impl = "numpy"
    /\ InitCall
    /\ NoFlow
    /\ NoOther

\* one loop body: n = 0, the sweep, the check, the break test, n += 1
NpSweep ==
    /\ impl = "numpy"
    /\ pc = "loop"
    /\ NpGuard
    /\ sweeps < MaxSweeps
    /\ pn' = p
    /\ p' = NpBody(p, b, shape[1], shape[2])
    /\ LET k == NpCounter(n)
       IN  /\ iter_diff' = IF k % CheckEvery = 0
                           THEN RelChange(p', pn', shape[1], shape[2])
                           ELSE iter_diff
           /\ IF k = Cap
              THEN n' = k /\ pc' = "returned"
              ELSE n' = k + 1 /\ pc' = pc
           /\ CountCheck(k, iter_diff')
    /\ UNCHANGED <<impl, shape, b, l2_target, p0, b0>>
    /\ UNCHANGED <<cfVars, otherVars>>

\* the loop condition fails: "return p"
NpReturn ==
    /\ impl = "numpy"
    /\ pc = "loop"
    /\ ~NpGuard
    /\ pc' = "returned"
    /\ UNCHANGED <<impl, shape, p, pn, b, l2_target, iter_diff, n, sweeps, checks, above,
                   p0, b0>>
    /\ UNCHANGED <<cfVars, otherVars>>

NextNp == NpSweep \/ NpReturn

SpecNp == InitNp /\ [][NextNp]_vars

\* both versions of pressure_poisson
SpecPP == (InitJit \/ InitNp) /\ [][NextJit \/ NextNp]_vars

(* ================= two calls of pressure_poisson ===================== *)

\* iter_diff <= l2_target held at the last check: the loop was left because
\* the value computed was at or below the tolerance
Converged == iter_diff.tag = "val" /\ ~Above(iter_diff, l2_target)

\* the first of two calls, the explicit-loop pressure_poisson(p, b, l2_target)
InitTwoCalls ==
    /\ impl = "jit"
    /\ InitCall
    /\ NoFlow
    /\ call = 1
    /\ first = NoFirst
    /\ NoLibrary

\* what the returned call leaves behind; the locals of the call that follows
NextCallFrame ==
    /\ call = 1
    /\ pc = "returned"
    /\ call' = 2
    /\ first' = [p |-> p, sweeps |-> sweeps, converged |-> Converged]
    /\ iter_diff' = InitDiff
    /\ n' = 0
    /\ pc' = "loop"
    /\ sweeps' = 0 /\ checks' = 0 /\ above' = 0
    /\ UNCHANGED <<shape, b, l2_target, b0, cfVars, jitVars, libVars>>

\* the same p, b and tolerance are then given to the NumPy pressure_poisson
CompareCall ==
    /\ NextCallFrame
    /\ impl' = "numpy"
    /\ p' = p0
    /\ pn' = p0
    /\ UNCHANGED p0

NextCompare == NextJit \/ CompareCall \/ NextNp

SpecCompare == InitTwoCalls /\ [][NextCompare]_vars

\* pressure_poisson is called again with the p it returned and the same b
AgainCall ==
    /\ NextCallFrame
    /\ impl' = impl
    /\ p' = p
    /\ pn' = p
    /\ p0' = p

NextAgain == NextJit \/ AgainCall

SpecAgain == InitTwoCalls /\ [][NextAgain]_vars

(* ========= pressure_poisson calling compute_iter_diff (Exercise 2) ==== *)

\* the two loops of compute_iter_diff: num and denom after the cells given,
\* in units of One^-2
RECURSIVE Accumulate(_, _, _, _, _)
Accumulate(pv, pnv, cells, num, denom) ==
    IF cells = << >> THEN <<num, denom>>
    ELSE LET c == Head(cells)
         IN  Accumulate(pv, pnv, Tail(cells),
                        num + (pv[c] - pnv[c]) * (pv[c] - pnv[c]),
                        denom + pnv[c] * pnv[c])

\* compute_iter_diff with its arguments exchanged
ComputeIterDiffSwapped(pv, pnv, I, J) ==
    LET acc == Accumulate(pnv, pv, LoopCells(0, I, 0, J), 0, 0)
    IN  IF acc[2] > 0 THEN [tag |-> "val", num |-> acc[1], den |-> acc[2]]
        ELSE IF acc[1] > 0 THEN [tag |-> "inf", num |-> acc[1], den |-> 0]
        ELSE [tag |-> "nan", num |-> 0, den |-> 0]

\* compute_iter_diff(p, pn): (num / denom)**.5 under IEEE division
ComputeIterDiff(pv, pnv, I, J) ==
    LET acc == Accumulate(pv, pnv, LoopCells(0, I, 0, J), 0, 0)
    IN  IF acc[2] > 0 THEN [tag |-> "val", num |-> acc[1], den |-> acc[2]]
        ELSE IF acc[1] > 0 THEN [tag |-> "inf", num |-> acc[1], den |-> 0]
        ELSE [tag |-> "nan", num |-> 0, den |-> 0]

\* the same p, b and tolerance are then given to the pressure_poisson that
\* calls compute_iter_diff
FnCall ==
    /\ NextCallFrame
    /\ impl' = "jit_fn"
    /\ p' = p0
    /\ pn' = p0
    /\ UNCHANGED p0

\* one loop body whose convergence check, if any, completes
FnSweep ==
    /\ impl = "jit_fn"
    /\ pc = "loop"
    /\ JitGuard
    /\ pn' = p
    /\ p' = JitBody(p, b, shape[1], shape[2])
    /\ iter_diff' = IF n % CheckEvery = 0
                    THEN ComputeIterDiff(p', pn', shape[1], shape[2])
                    ELSE iter_diff
    /\ n' = n + 1
    /\ CountCheck(n, iter_diff')
    /\ UNCHANGED <<impl, shape, b, l2_target, pc, p0, b0>>
    /\ UNCHANGED <<cfVars, otherVars>>

\* one loop body whose check has denom = 0: compiled, "num / denom" raises
\* ZeroDivisionError
FnSweepRaise ==
    /\ impl = "jit_fn"
    /\ pc = "loop"
    /\ JitGuard
    /\ n % CheckEvery = 0
    /\ Accumulate(JitBody(p, b, shape[1], shape[2]), p,
                  LoopCells(0, shape[1], 0, shape[2]), 0, 0)[2] = 0
    /\ pn' = p
    /\ p' = JitBody(p, b, shape[1], shape[2])
    /\ pc' = "raised"
    /\ sweeps' = sweeps + 1
    /\ checks' = checks + 1
    /\ UNCHANGED <<impl, shape, b, l2_target, iter_diff, n, above, p0, b0>>
    /\ UNCHANGED <<cfVars, otherVars>>

\* the loop condition fails: "return p"
FnReturn ==
    /\ impl = "jit_fn"
    /\ pc = "loop"
    /\ ~JitGuard
    /\ pc' = "returned"
    /\ UNCHANGED <<impl, shape, p, pn, b, l2_target, iter_diff, n, sweeps, checks, above,
                   p0, b0>>
    /\ UNCHANGED <<cfVars, otherVars>>

\* the inline version, then the version calling compute_iter_diff
SpecFn == InitTwoCalls /\ [][NextJit \/ FnCall \/ FnSweep \/ FnSweepRaise \/ FnReturn]_vars


(* ========================= velocity_term ============================= *)

\* elementwise g * h, g**2, g / k
GridMul(g, h) == [c \in DOMAIN g |-> FMul(g[c], h[c])]

GridSq(g) == [c \in DOMAIN g |-> FMul(g[c], g[c])]

GridDiv(g, k) == [c \in DOMAIN g |-> FDiv(g[c], k)]

\* the slice arguments 1:-1, 2: and :-2 of an axis of length len
Mid == <<1, 0 - 1>>

From2(len) == <<2, len>>

UpTo2 == <<0, 0 - 2>>

\* velocity_term with the first product of the bracket typed as a sum
VelocityTermPlus(bv, rhov, dtv, uv, vv, dxv, I, J) ==
    LET du_x == GridSub(Slice(uv, I, J, Mid, From2(J)), Slice(uv, I, J, Mid, UpTo2))
        dv_y == GridSub(Slice(vv, I, J, From2(I), Mid), Slice(vv, I, J, UpTo2, Mid))
        du_y == GridSub(Slice(uv, I, J, From2(I), Mid), Slice(uv, I, J, UpTo2, Mid))
        dv_x == GridSub(Slice(vv, I, J, Mid, From2(J)), Slice(vv, I, J, Mid, UpTo2))
        t1   == [c \in DOMAIN du_x |-> FDiv(2 * One, dtv) + du_x[c] + dv_y[c]]
        t2   == GridMul(GridScale(FDiv(2 * One, dxv), du_y), dv_x)
        t3   == GridDiv(GridSq(du_x), dxv)
        t4   == GridDiv(GridSq(dv_y), dxv)
    IN  SetSlice(bv, I, J, Mid, Mid,
            GridScale(FDiv(FMul(rhov, dxv), 16 * One),
                      GridSub(GridSub(GridSub(t1, t2), t3), t4)))

\* velocity_term with the two axes of the slices of u exchanged
VelocityTermSwapped(bv, rhov, dtv, uv, vv, dxv, I, J) ==
    LET du_x == GridSub(Slice(uv, I, J, From2(I), Mid), Slice(uv, I, J, UpTo2, Mid))
        dv_y == GridSub(Slice(vv, I, J, From2(I), Mid), Slice(vv, I, J, UpTo2, Mid))
        du_y == GridSub(Slice(uv, I, J, Mid, From2(J)), Slice(uv, I, J, Mid, UpTo2))
        dv_x == GridSub(Slice(vv, I, J, Mid, From2(J)), Slice(vv, I, J, Mid, UpTo2))
        t1   == GridScale(FDiv(2 * One, dtv), GridAdd(du_x, dv_y))
        t2   == GridMul(GridScale(FDiv(2 * One, dxv), du_y), dv_x)
        t3   == GridDiv(GridSq(du_x), dxv)
        t4   == GridDiv(GridSq(dv_y), dxv)
    IN  SetSlice(bv, I, J, Mid, Mid,
            GridScale(FDiv(FMul(rhov, dxv), 16 * One),
                      GridSub(GridSub(GridSub(t1, t2), t3), t4)))

\* velocity_term assigning to b[:-2, :-2] instead of b[1:-1, 1:-1]
VelocityTermShifted(bv, rhov, dtv, uv, vv, dxv, I, J) ==
    LET du_x == GridSub(Slice(uv, I, J, Mid, From2(J)), Slice(uv, I, J, Mid, UpTo2))
        dv_y == GridSub(Slice(vv, I, J, From2(I), Mid), Slice(vv, I, J, UpTo2, Mid))
        du_y == GridSub(Slice(uv, I, J, From2(I), Mid), Slice(uv, I, J, UpTo2, Mid))
        dv_x == GridSub(Slice(vv, I, J, Mid, From2(J)), Slice(vv, I, J, Mid, UpTo2))
        t1   == GridScale(FDiv(2 * One, dtv), GridAdd(du_x, dv_y))
        t2   == GridMul(GridScale(FDiv(2 * One, dxv), du_y), dv_x)
        t3   == GridDiv(GridSq(du_x), dxv)
        t4   == GridDiv(GridSq(dv_y), dxv)
    IN  SetSlice(bv, I, J, UpTo2, UpTo2,
            GridScale(FDiv(FMul(rhov, dxv), 16 * One),
                      GridSub(GridSub(GridSub(t1, t2), t3), t4)))

\* "b[1:-1, 1:-1] = (rho * dx / 16 * (2 / dt * (u[1:-1, 2:] - u[1:-1, :-2]
\*     + v[2:, 1:-1] - v[:-2, 1:-1]) - 2 / dx * (u[2:, 1:-1] - u[:-2, 1:-1])
\*     * (v[1:-1, 2:] - v[1:-1, :-2]) - (u[1:-1, 2:] - u[1:-1, :-2])**2 / dx
\*     - (v[2:, 1:-1] - v[:-2, 1:-1])**2 / dx)); return b"
VelocityTerm(bv, rhov, dtv, uv, vv, dxv, I, J) ==
    LET du_x == GridSub(Slice(uv, I, J, Mid, From2(J)), Slice(uv, I, J, Mid, UpTo2))
        dv_y == GridSub(Slice(vv, I, J, From2(I), Mid), Slice(vv, I, J, UpTo2, Mid))
        du_y == GridSub(Slice(uv, I, J, From2(I), Mid), Slice(uv, I, J, UpTo2, Mid))
        dv_x == GridSub(Slice(vv, I, J, Mid, From2(J)), Slice(vv, I, J, Mid, UpTo2))
        t1   == GridScale(FDiv(2 * One, dtv), GridAdd(du_x, dv_y))
        t2   == GridMul(GridScale(FDiv(2 * One, dxv), du_y), dv_x)
        t3   == GridDiv(GridSq(du_x), dxv)
        t4   == GridDiv(GridSq(dv_y), dxv)
    IN  SetSlice(bv, I, J, Mid, Mid,
            GridScale(FDiv(FMul(rhov, dxv), 16 * One),
                      GridSub(GridSub(GridSub(t1, t2), t3), t4)))

\* the velocity inputs: curved surfaces a*i*i + c*i*j - d*j, in whole units
CurvedGrid(I, J, a, c, d) ==
    [cell \in Cells(I, J) |->
        One * (a * cell[1] * cell[1] + c * cell[1] * cell[2] - d * cell[2])]

\* the scalars tried: rho in {1, 2}, dt in {1/4, 1/2}, dx in {1, 2}
Rhos == {One, 2 * One}

Dts == {One \div 4, One \div 2}

Dxs == {One, 2 * One}

\* no call of pressure_poisson is under way
NoPressureCall ==
    /\ pn = p
    /\ l2_target = <<0, 1>>
    /\ iter_diff = InitDiff
    /\ n = 0
    /\ pc = "idle"
    /\ sweeps = 0 /\ checks = 0 /\ above = 0
    /\ p0 = p

\* a lone call velocity_term(b, rho, dt, u, v, dx)
InitVT ==
    /\ impl = "none"
    /\ shape \in Dims \X Dims
    /\ p = InputGrid(shape[1], shape[2], 0, 0, 0)
    /\ NoPressureCall
    /\ \E g \in Coefs : b = InputGrid(shape[1], shape[2], 1, 1, g)
    /\ b0 = b
    /\ \E a, c, d \in Coefs : u = CurvedGrid(shape[1], shape[2], a, c, d)
    /\ \E a, c \in Coefs : v = CurvedGrid(shape[1], shape[2], c, a, 0)
    /\ un = u /\ vn = v
    /\ rho \in Rhos /\ dt \in Dts /\ dx \in Dxs
    /\ nu = 0 /\ nt = 0 /\ rtol = <<0, 1>> /\ step = 0 /\ log = << >> /\ pRet = << >>
    /\ stage = "vt_call"
    /\ NoOther

\* the call runs and returns b
VtApply ==
    /\ stage = "vt_call"
    /\ b' = VelocityTerm(b, rho, dt, u, v, dx, shape[1], shape[2])
    /\ stage' = "vt_done"
    /\ UNCHANGED <<impl, shape, p, pn, l2_target, iter_diff, n, pc, sweeps, checks, above,
                   p0, b0>>
    /\ UNCHANGED <<u, v, un, vn, rho, nu, dt, dx, nt, rtol, step, log, pRet, otherVars>>

NextVT == VtApply

SpecVT == InitVT /\ [][NextVT]_vars

(* =========================== cavity_flow ============================= *)

\* the boundary conditions of u with the lid assigned before the side walls
BoundaryULidFirst(g, I, J) ==
    FillColumn(FillColumn(FillRow(FillRow(g, I, J, 0, 0), I, J, 0 - 1, One), I, J, 0, 0),
               I, J, 0 - 1, 0)

\* the update of v reading the u just written instead of the snapshot un
UpdateVFresh(vv, unv, vnv, pv, rhov, nuv, dtv, dxv, I, J) ==
    LET un_c == Slice(u, I, J, Mid, Mid)
        vn_c == Slice(vnv, I, J, Mid, Mid)
        adv  == GridAdd(
                    GridAdd(GridMul(un_c, GridSub(vn_c, Slice(vnv, I, J, Mid, UpTo2))),
                            GridMul(vn_c, GridSub(vn_c, Slice(vnv, I, J, UpTo2, Mid)))),
                    GridScale(FDiv(One, FMul(2 * One, rhov)),
                              GridSub(Slice(pv, I, J, From2(I), Mid),
                                      Slice(pv, I, J, UpTo2, Mid))))
        lap  == GridSub(
                    GridAdd(GridAdd(GridAdd(Slice(vnv, I, J, Mid, From2(J)),
                                            Slice(vnv, I, J, Mid, UpTo2)),
                                    Slice(vnv, I, J, From2(I), Mid)),
                            Slice(vnv, I, J, UpTo2, Mid)),
                    GridScale(4 * One, vn_c))
    IN  SetSlice(vv, I, J, Mid, Mid,
            GridAdd(GridSub(vn_c, GridScale(FDiv(dtv, dxv), adv)),
                    GridScale(FDiv(FMul(nuv, dtv), FMul(dxv, dxv)), lap)))

\* the update of v with un as the advecting velocity of both differences
UpdateVByU(vv, unv, vnv, pv, rhov, nuv, dtv, dxv, I, J) ==
    LET un_c == Slice(unv, I, J, Mid, Mid)
        vn_c == Slice(vnv, I, J, Mid, Mid)
        adv  == GridAdd(
                    GridAdd(GridMul(un_c, GridSub(vn_c, Slice(vnv, I, J, Mid, UpTo2))),
                            GridMul(un_c, GridSub(vn_c, Slice(vnv, I, J, UpTo2, Mid)))),
                    GridScale(FDiv(One, FMul(2 * One, rhov)),
                              GridSub(Slice(pv, I, J, From2(I), Mid),
                                      Slice(pv, I, J, UpTo2, Mid))))
        lap  == GridSub(
                    GridAdd(GridAdd(GridAdd(Slice(vnv, I, J, Mid, From2(J)),
                                            Slice(vnv, I, J, Mid, UpTo2)),
                                    Slice(vnv, I, J, From2(I), Mid)),
                            Slice(vnv, I, J, UpTo2, Mid)),
                    GridScale(4 * One, vn_c))
    IN  SetSlice(vv, I, J, Mid, Mid,
            GridAdd(GridSub(vn_c, GridScale(FDiv(dtv, dxv), adv)),
                    GridScale(FDiv(FMul(nuv, dtv), FMul(dxv, dxv)), lap)))

\* "u[1:-1,1:-1] = (un[1:-1, 1:-1] - dt / dx * (un[1:-1,1:-1] * (un[1:-1, 1:-1]
\*   - un[1:-1, :-2]) + vn[1:-1, 1:-1] * (un[1:-1, 1:-1] - un[:-2, 1:-1])
\*   + 1 / (2 * rho) * (p[1:-1, 2:] - p[1:-1, :-2])) + nu * dt / dx**2
\*   * (un[1:-1, 2:] + un[1:-1, :-2] + un[2:, 1:-1] + un[:-2, 1:-1]
\*   - 4 * un[1:-1, 1:-1]))"
UpdateU(uv, unv, vnv, pv, rhov, nuv, dtv, dxv, I, J) ==
    LET un_c == Slice(unv, I, J, Mid, Mid)
        vn_c == Slice(vnv, I, J, Mid, Mid)
        adv  == GridAdd(
                    GridAdd(GridMul(un_c, GridSub(un_c, Slice(unv, I, J, Mid, UpTo2))),
                            GridMul(vn_c, GridSub(un_c, Slice(unv, I, J, UpTo2, Mid)))),
                    GridScale(FDiv(One, FMul(2 * One, rhov)),
                              GridSub(Slice(pv, I, J, Mid, From2(J)),
                                      Slice(pv, I, J, Mid, UpTo2))))
        lap  == GridSub(
                    GridAdd(GridAdd(GridAdd(Slice(unv, I, J, Mid, From2(J)),
                                            Slice(unv, I, J, Mid, UpTo2)),
                                    Slice(unv, I, J, From2(I), Mid)),
                            Slice(unv, I, J, UpTo2, Mid)),
                    GridScale(4 * One, un_c))
    IN  SetSlice(uv, I, J, Mid, Mid,
            GridAdd(GridSub(un_c, GridScale(FDiv(dtv, dxv), adv)),
                    GridScale(FDiv(FMul(nuv, dtv), FMul(dxv, dxv)), lap)))

\* "v[1:-1,1:-1] = (vn[1:-1, 1:-1] - dt / dx * (un[1:-1,1:-1] * (vn[1:-1, 1:-1]
\*   - vn[1:-1, :-2]) + vn[1:-1, 1:-1] * (vn[1:-1, 1:-1] - vn[:-2, 1:-1])
\*   + 1 / (2 * rho) * (p[2:, 1:-1] - p[:-2, 1:-1])) + nu * dt / dx**2
\*   * (vn[1:-1, 2:] + vn[1:-1, :-2] + vn[2:, 1:-1] + vn[:-2, 1:-1]
\*   - 4 * vn[1:-1, 1:-1]))"
UpdateV(vv, unv, vnv, pv, rhov, nuv, dtv, dxv, I, J) ==
    LET un_c == Slice(unv, I, J, Mid, Mid)
        vn_c == Slice(vnv, I, J, Mid, Mid)
        adv  == GridAdd(
                    GridAdd(GridMul(un_c, GridSub(vn_c, Slice(vnv, I, J, Mid, UpTo2))),
                            GridMul(vn_c, GridSub(vn_c, Slice(vnv, I, J, UpTo2, Mid)))),
                    GridScale(FDiv(One, FMul(2 * One, rhov)),
                              GridSub(Slice(pv, I, J, From2(I), Mid),
                                      Slice(pv, I, J, UpTo2, Mid))))
        lap  == GridSub(
                    GridAdd(GridAdd(GridAdd(Slice(vnv, I, J, Mid, From2(J)),
                                            Slice(vnv, I, J, Mid, UpTo2)),
                                    Slice(vnv, I, J, From2(I), Mid)),
                            Slice(vnv, I, J, UpTo2, Mid)),
                    GridScale(4 * One, vn_c))
    IN  SetSlice(vv, I, J, Mid, Mid,
            GridAdd(GridSub(vn_c, GridScale(FDiv(dtv, dxv), adv)),
                    GridScale(FDiv(FMul(nuv, dtv), FMul(dxv, dxv)), lap)))

\* "u[:, 0] = 0; u[:, -1] = 0; u[0, :] = 0; u[-1, :] = 1"
BoundaryU(g, I, J) ==
    FillRow(FillRow(FillColumn(FillColumn(g, I, J, 0, 0), I, J, 0 - 1, 0), I, J, 0, 0),
            I, J, 0 - 1, One)

\* "v[:, 0] = 0; v[:, -1] = 0; v[0, :] = 0; v[-1, :] = 0"
BoundaryV(g, I, J) ==
    FillRow(FillRow(FillColumn(FillColumn(g, I, J, 0, 0), I, J, 0 - 1, 0), I, J, 0, 0),
            I, J, 0 - 1, 0)

\* the statements of the loop body in the order pressure comes before source
StageAfterSwapped(s) ==
    CASE s = "snapshot" -> "pressure"
      [] s = "pressure" -> "source"
      [] s = "source"   -> "u"
      [] s = "u"        -> "v"
      [] s = "v"        -> "bc"
      [] OTHER          -> "for"

\* the statement that follows statement s in the body of "for n in range(nt)"
StageAfter(s) ==
    CASE s = "snapshot" -> "source"
      [] s = "source"   -> "pressure"
      [] s = "pressure" -> "u"
      [] s = "u"        -> "v"
      [] s = "v"        -> "bc"
      [] OTHER          -> "for"

\* the initial velocities of a cavity run: a/4 times a pattern of 0, 1, 2
SlowGrid(I, J, a) ==
    [cell \in Cells(I, J) |-> a * (One \div 4) * ((cell[1] * cell[2] + cell[2]) % 3)]

\* the viscosities and tolerances tried
Nus == {One \div 4}

Rtols == {<<0, 1>>, <<1, 2>>}

\* cavity_flow(nt, u, v, dt, dx, p, rho, nu, rtol) at its loop head, after
\* "b = numpy.zeros((ny, nx))"
InitCavity ==
    /\ impl = "numpy"
    /\ shape \in Dims \X Dims
    /\ \E d \in Coefs : p = InputGrid(shape[1], shape[2], 0, 0, d)
    /\ NoPressureCall
    /\ b = InputGrid(shape[1], shape[2], 0, 0, 0)
    /\ b0 = b
    /\ \E a \in Coefs : u = SlowGrid(shape[1], shape[2], a)
    /\ \E c \in Coefs : v = SlowGrid(shape[1], shape[2], 0 - c)
    /\ un = u /\ vn = v
    /\ rho \in Rhos /\ dt \in Dts /\ dx \in Dxs /\ nu \in Nus
    /\ nt \in 0 .. MaxNt
    /\ rtol \in Rtols
    /\ step = 0
    /\ log = << >>
    /\ pRet = p
    /\ stage = "for"
    /\ NoOther

cfFrame == <<impl, shape, pn, l2_target, iter_diff, n, pc, sweeps, checks, above, p0, b0,
            otherVars>>

\* "for n in range(nt):" with timesteps left
CfFor ==
    /\ stage = "for"
    /\ step < nt
    /\ stage' = "snapshot"
    /\ log' = << >>
    /\ UNCHANGED <<cfFrame, p, b, u, v, un, vn, rho, nu, dt, dx, nt, rtol, step, pRet>>

\* "for n in range(nt):" exhausted: "return u, v, p"
CfDone ==
    /\ stage = "for"
    /\ step >= nt
    /\ stage' = "done"
    /\ UNCHANGED <<cfFrame, p, b, u, v, un, vn, rho, nu, dt, dx, nt, rtol, step, log, pRet>>

\* "un = u.copy(); vn = v.copy()"
CfSnapshot ==
    /\ stage = "snapshot"
    /\ un' = u
    /\ vn' = v
    /\ stage' = StageAfter(stage)
    /\ log' = Append(log, stage)
    /\ UNCHANGED <<cfFrame, p, b, u, v, rho, nu, dt, dx, nt, rtol, step, pRet>>

\* "b = velocity_term(b, rho, dt, u, v, dx)"
CfSource ==
    /\ stage = "source"
    /\ b' = VelocityTerm(b, rho, dt, u, v, dx, shape[1], shape[2])
    /\ stage' = StageAfter(stage)
    /\ log' = Append(log, stage)
    /\ UNCHANGED <<cfFrame, p, u, v, un, vn, rho, nu, dt, dx, nt, rtol, step, pRet>>

\* "pressure_poisson(p, b, rtol)": the call, up to the loop head
CfPressureCall ==
    /\ stage = "pressure"
    /\ pc = "idle"
    /\ l2_target' = rtol
    /\ pn' = p
    /\ iter_diff' = InitDiff
    /\ pc' = "loop"
    /\ sweeps' = 0 /\ checks' = 0 /\ above' = 0
    /\ p0' = p
    /\ b0' = b
    /\ UNCHANGED <<impl, shape, p, b, n>>
    /\ UNCHANGED <<cfVars, otherVars>>

\* "p = pressure_poisson(...)": the call has returned
CfPressureReturn ==
    /\ stage = "pressure"
    /\ pc = "returned"
    /\ pc' = "idle"
    /\ pRet' = p
    /\ stage' = StageAfter(stage)
    /\ log' = Append(log, stage)
    /\ UNCHANGED <<impl, shape, p, pn, b, l2_target, iter_diff, n, sweeps, checks, above,
                   p0, b0>>
    /\ UNCHANGED <<u, v, un, vn, rho, nu, dt, dx, nt, rtol, step, otherVars>>

\* the interior update of u
CfUpdateU ==
    /\ stage = "u"
    /\ u' = UpdateU(u, un, vn, p, rho, nu, dt, dx, shape[1], shape[2])
    /\ stage' = StageAfter(stage)
    /\ log' = Append(log, stage)
    /\ UNCHANGED <<cfFrame, p, b, v, un, vn, rho, nu, dt, dx, nt, rtol, step, pRet>>

\* the interior update of v
CfUpdateV ==
    /\ stage = "v"
    /\ v' = UpdateV(v, un, vn, p, rho, nu, dt, dx, shape[1], shape[2])
    /\ stage' = StageAfter(stage)
    /\ log' = Append(log, stage)
    /\ UNCHANGED <<cfFrame, p, b, u, un, vn, rho, nu, dt, dx, nt, rtol, step, pRet>>

\* the velocity boundary conditions; the end of the loop body
CfBoundary ==
    /\ stage = "bc"
    /\ u' = BoundaryU(u, shape[1], shape[2])
    /\ v' = BoundaryV(v, shape[1], shape[2])
    /\ step' = step + 1
    /\ stage' = StageAfter(stage)
    /\ log' = Append(log, stage)
    /\ UNCHANGED <<cfFrame, p, b, un, vn, rho, nu, dt, dx, nt, rtol, pRet>>

NextCavity ==
    \/ CfFor \/ CfDone \/ CfSnapshot \/ CfSource
    \/ CfPressureCall \/ NpSweep \/ NpReturn \/ CfPressureReturn
    \/ CfUpdateU \/ CfUpdateV \/ CfBoundary

SpecCavity == InitCavity /\ [][NextCavity]_vars

\* velocity_term alone and inside cavity_flow
SpecFlow == (InitVT \/ InitCavity) /\ [][NextVT \/ NextCavity]_vars

\* pressure_poisson called alone (either version) and by cavity_flow
SpecSolver == (InitJit \/ InitNp \/ InitCavity) /\ [][NextJit \/ NextNp \/ NextCavity]_vars

(* ============ globals as compile-time constants (add_to_a) =========== *)

\* largest number of cells run in one session
MaxEvents == 5

\* the flow solver is not run
NoSolver ==
    /\ impl = "none"
    /\ shape = <<3, 3>>
    /\ p = << >> /\ b = << >> /\ b0 = << >>
    /\ NoPressureCall
    /\ NoFlow
    /\ NoTwoCalls

\* the values assigned to a: "a = 5", "a = 12"
GlobalValues == {5, 12}

\* the argument of the calls: "add_to_a(7)", as an int and as a float
Arguments == {7}

\* "return a + b" reading the global at call time, as the interpreter would
AddToALate(built_in, now, arg) == now + arg

\* "return a + b" as compiled: a is the constant built in at compile time
AddToA(built_in, now, arg) == built_in + arg

Event(kind, ty, arg, val) == [kind |-> kind, ty |-> ty, arg |-> arg, val |-> val]

\* "a = 5", then "@njit def add_to_a(b): return a + b": nothing compiled yet
InitGlobals ==
    /\ NoSolver
    /\ NoKernel
    /\ global_a = 5
    /\ compiled = [ty \in Signatures |-> NotCompiled]
    /\ events = << >>

\* "a = 12": the global is rebound
AssignA ==
    /\ Len(events) < MaxEvents
    /\ \E x \in GlobalValues :
          /\ global_a' = x
          /\ events' = Append(events, Event("assign", "none", 0, x))
    /\ UNCHANGED <<ppVars, cfVars, hVars, libVars, compiled>>

\* "add_to_a(7)": compiled for the argument type at the first call with it,
\* later calls with that type run the version already compiled
CallAddToA ==
    /\ Len(events) < MaxEvents
    /\ \E ty \in Signatures, arg \in Arguments :
          /\ compiled' = IF compiled[ty] = NotCompiled
                         THEN [compiled EXCEPT ![ty] = CompiledWith(global_a)]
                         ELSE compiled
          /\ events' = Append(events,
                              Event("call", ty, arg, AddToA(compiled'[ty].a, global_a, arg)))
    /\ UNCHANGED <<ppVars, cfVars, hVars, libVars, global_a>>

\* "add_to_a.recompile()": every version compiled so far is built again
Recompile ==
    /\ Len(events) < MaxEvents
    /\ compiled' = [ty \in Signatures |->
                        IF compiled[ty] = NotCompiled THEN NotCompiled
                        ELSE CompiledWith(global_a)]
    /\ events' = Append(events, Event("recompile", "none", 0, 0))
    /\ UNCHANGED <<ppVars, cfVars, hVars, libVars, global_a>>

NextGlobals == AssignA \/ CallAddToA \/ Recompile

SpecGlobals == InitGlobals /\ [][NextGlobals]_vars

(* ====================== ufuncs: my_clip ============================== *)

\* length of the vectors given to the ufuncs
MaxLen == 2

\* largest element value and limit tried
MaxValue == 3

\* the float64 value NaN (every ordered comparison with it is false)
NaN == 0 - 99

\* x < y on float64
Less(x, y) == x # NaN /\ y # NaN /\ x < y

\* what a freshly allocated (numpy.empty) element may hold
Garbage == {0 - 5, 9}

\* the sequence without its k-th item
Without(sq, k) == SubSeq(sq, 1, k - 1) \o SubSeq(sq, k + 1, Len(sq))

\* my_clip with the two limits exchanged in the results
MyClipSwapped(a, amin, amax) ==
    IF Less(a, amin) THEN amax
    ELSE IF Less(amax, a) THEN amin
    ELSE a

\* my_clip without the upper limit
MyClipLowerOnly(a, amin, amax) == IF Less(a, amin) THEN amin ELSE a

\* "result = a; if a < amin: result = amin; elif a > amax: result = amax"
MyClip(a, amin, amax) ==
    IF Less(a, amin) THEN amin
    ELSE IF Less(amax, a) THEN amax
    ELSE a

ClipValues == {NaN} \cup (0 .. MaxValue)

\* everything but the ufunc/kernel variables is idle
NoOthers ==
    /\ NoSolver
    /\ NoGlobals

\* vec_truncate_serial(a, amin, amax) or vec_truncate_par(a, amin, amax) with
\* scalar limits amin <= amax: the output is allocated, no element computed
InitClip ==
    /\ NoOthers
    /\ kernel \in {"vec_truncate_serial", "vec_truncate_par"}
    /\ \E vec \in [1 .. MaxLen -> ClipValues], lo, hi \in 0 .. MaxValue :
          /\ lo <= hi
          /\ input = [a |-> vec, amin |-> lo, amax |-> hi]
    /\ \E g \in Garbage : mem = [k \in 1 .. MaxLen |-> g]
    /\ todo = Range(1, MaxLen + 1)
    /\ status = "running"

\* the ufunc loop applies my_clip to one more element: the next one in the
\* serial target, any remaining one in the parallel target
ClipElement ==
    /\ kernel \in {"vec_truncate_serial", "vec_truncate_par"}
    /\ status = "running"
    /\ \E at \in 1 .. Len(todo) :
          /\ kernel = "vec_truncate_serial" => at = 1
          /\ mem' = [mem EXCEPT ![todo[at]] = MyClip(input.a[todo[at]], input.amin, input.amax)]
          /\ todo' = Without(todo, at)
    /\ UNCHANGED <<ppVars, cfVars, hVars, jitVars, kernel, input, status>>

\* all elements done: the ufunc returns the output array
ClipReturn ==
    /\ kernel \in {"vec_truncate_serial", "vec_truncate_par"}
    /\ status = "running"
    /\ todo = << >>
    /\ status' = "returned"
    /\ UNCHANGED <<ppVars, cfVars, hVars, jitVars, kernel, input, mem, todo>>

NextClip == ClipElement \/ ClipReturn

SpecClip == InitClip /\ [][NextClip]_vars

(* ================== n-body: distance, direct_sum ===================== *)

\* largest number of particles
MaxParticles == 3

\* largest coordinate of a particle, in whole units
MaxCoord == 2

\* x ** .5 on fixed-point values: the nearest representable value
FSqrt(x) ==
    IF x <= 0 THEN 0
    ELSE CHOOSE k \in 1 .. x + One :
            (2 * k - 1) * (2 * k - 1) <= 4 * x * One /\ 4 * x * One < (2 * k + 1) * (2 * k + 1)

\* "((p1['x'] - p2['x'])**2 + (p1['y'] - p2['y'])**2 + (p1['z'] - p2['z'])**2)**.5"
Distance(p1, p2) ==
    FSqrt(FMul(p1.x - p2.x, p1.x - p2.x)
          + FMul(p1.y - p2.y, p1.y - p2.y)
          + FMul(p1.z - p2.z, p1.z - p2.z))

\* the positions tried, in whole units; particles may share one
Points == {<<0, 0, 0>>, <<1, 0, 0>>, <<0, MaxCoord, 0>>, <<1, MaxCoord, MaxCoord>>}

\* the masses tried (one for the odd, one for the even particles)
Masses == {One, One \div 2}

\* a particle of particle_dtype / of class Particle
ParticleAt(pt, m, phi) ==
    [x |-> One * pt[1], y |-> One * pt[2], z |-> One * pt[3], m |-> m, phi |-> phi]

\* the inner-loop iterations of direct_sum over n particles, in order, as
\* pairs (target, source): the list version iterates over
\* "particles[:i] + particles[i+1:]", the array version over every j and
\* tests "if i == j"
RECURSIVE PairsFrom(_, _, _, _)
PairsFrom(i, j, len, withSelf) ==
    IF i > len THEN << >>
    ELSE IF j > len THEN PairsFrom(i + 1, 1, len, withSelf)
    ELSE (IF i = j /\ ~withSelf THEN << >> ELSE << <<i, j>> >>)
         \o PairsFrom(i, j + 1, len, withSelf)

\* the array version without "if i == j: continue"
SkipsNone(i, j) == FALSE

\* "if i == j: continue"
Skips(i, j) == i = j

\* direct_sum(particles), the list-of-objects or the structured-array
\* version, at the head of its loops
InitDirectSum ==
    /\ NoOthers
    /\ kernel \in {"direct_sum_list", "direct_sum_array"}
    /\ \E len \in MaxParticles - 1 .. MaxParticles, f \in {0, One} :
          \E pts \in [1 .. len -> Points], ms \in [0 .. 1 -> Masses] :
              /\ input = [i \in 1 .. len |-> ParticleAt(pts[i], ms[i % 2], f)]
              /\ todo = PairsFrom(1, 1, len, kernel = "direct_sum_array")
    /\ mem = input
    /\ status = "running"

\* one iteration of the inner loop
DirectSumStep ==
    /\ kernel \in {"direct_sum_list", "direct_sum_array"}
    /\ status = "running"
    /\ todo # << >>
    /\ LET i == Head(todo)[1]
           j == Head(todo)[2]
           r == Distance(mem[i], mem[j])
       IN  IF kernel = "direct_sum_array" /\ Skips(i, j)
           THEN /\ todo' = Tail(todo)
                /\ UNCHANGED <<mem, status>>
           ELSE IF r = 0
           THEN /\ status' = "raised"
                /\ UNCHANGED <<mem, todo>>
           ELSE /\ mem' = [mem EXCEPT ![i].phi = @ + FDiv(mem[j].m, r)]
                /\ todo' = Tail(todo)
                /\ UNCHANGED status
    /\ UNCHANGED <<ppVars, cfVars, hVars, jitVars, kernel, input>>

\* both loops are exhausted
DirectSumReturn ==
    /\ kernel \in {"direct_sum_list", "direct_sum_array"}
    /\ status = "running"
    /\ todo = << >>
    /\ status' = "returned"
    /\ UNCHANGED <<ppVars, cfVars, hVars, jitVars, kernel, input, mem, todo>>

NextDirectSum == DirectSumStep \/ DirectSumReturn

SpecDirectSum == InitDirectSum /\ [][NextDirectSum]_vars

(***************************************************************************)
(* n-body: create_n_random_particles(n, m, domain).  numpy.random.random() *)
(* returns a float of [0, 1); the draws tried are the smallest, a middle   *)
(* and the largest such value of the fixed-point grid.  The domain sizes   *)
(* tried are positive whole numbers, for which the product is exact.       *)
(***************************************************************************)

\* a generator that could also return 1.0
RandomDrawsClosed == {0, One \div 2, One}

\* the values numpy.random.random() returns
RandomDraws == {0, One \div 2, One - 1}

\* the domain sizes tried
Domains == {One, MaxCoord * One}

\* numpy.zeros((len), dtype=particle_dtype)
ZeroParticles(len) == [i \in 1 .. len |-> ParticleAt(<<0, 0, 0>>, 0, 0)]

\* create_n_random_particles(n, m, domain) after the allocation
InitCreate ==
    /\ NoOthers
    /\ kernel = "create_n_random_particles"
    /\ \E len \in 0 .. MaxLen, mass \in Masses, size \in Domains :
          /\ input = <<[n |-> len, m |-> mass, domain |-> size]>>
          /\ mem = ZeroParticles(len)
          /\ todo = [i \in 1 .. len |-> i]
    /\ status = "running"

\* one iteration of 'for particle in particles'
CreateParticle ==
    /\ kernel = "create_n_random_particles"
    /\ status = "running"
    /\ todo # << >>
    /\ \E rx \in RandomDraws, ry \in RandomDraws, rz \in RandomDraws :
          mem' = [mem EXCEPT ![Head(todo)] =
                     [x   |-> FMul(input[1].domain, rx),
                      y   |-> FMul(input[1].domain, ry),
                      z   |-> FMul(input[1].domain, rz),
                      m   |-> input[1].m,
                      phi |-> 0]]
    /\ todo' = Tail(todo)
    /\ UNCHANGED <<ppVars, cfVars, hVars, jitVars, kernel, input, status>>

\* return particles
CreateReturn ==
    /\ kernel = "create_n_random_particles"
    /\ status = "running"
    /\ todo = << >>
    /\ status' = "returned"
    /\ UNCHANGED <<ppVars, cfVars, hVars, jitVars, kernel, input, mem, todo>>

NextCreate == CreateParticle \/ CreateReturn

SpecCreate == InitCreate /\ [][NextCreate]_vars

(***************************************************************************)
(* generalized ufuncs: g, matmul, gucopy.  The output array is the last    *)
(* argument of the kernel: the caller's array when one is passed, a        *)
(* numpy.empty one otherwise.  input = <<the arguments, the output buffer  *)
(* as it was before the call>>; mem.args and mem.out are the arrays during *)
(* the call, mem.stored the output elements assigned so far (history).     *)
(***************************************************************************)

\* a matmul that accumulates onto what the buffer holds
KeepOld(old) == old

\* C[i, j] = 0
Reset(old) == 0

\* a copy that reads the transposed element
CopiedFromTransposed(i, j) == <<j, i>>

\* the element of a that gucopy stores into b[i, j]
CopiedFrom(i, j) == <<i, j>>

\* what an output element may hold before the call: the caller's zeros or
\* whatever numpy.empty left there
Prior == {0} \cup Garbage

\* the output buffers tried, of shape (rows, cols) or of shape (rows)
PriorMatrices(rows, cols) ==
    {[i \in 1 .. rows |-> [j \in 1 .. cols |-> f[(i + j) % 2]]] : f \in [0 .. 1 -> Prior]}

PriorVectors(rows) ==
    {[i \in 1 .. rows |-> f[i % 2]] : f \in [0 .. 1 -> Prior]}

\* the float64 matrices tried, of shape (rows, cols)
Matrices(rows, cols) ==
    {[i \in 1 .. rows |-> [j \in 1 .. cols |-> f[(i + 2 * j) % 3]]] : f \in [0 .. 2 -> RandomDraws]}

\* the loop nests: the (i, j, k) of each store, in program order; k = 0 is
\* the statement before the innermost loop
LoopNest(rows, cols, inner) ==
    [idx \in 1 .. rows * cols * (inner + 1) |->
        <<(idx - 1) \div (cols * (inner + 1)) + 1,
          (((idx - 1) \div (inner + 1)) % cols) + 1,
          (idx - 1) % (inner + 1)>>]

\* g(x, y, result) or g(x, y)
InitG ==
    /\ kernel = "g"
    /\ \E len \in 0 .. MaxLen :
          \E vec \in [1 .. len -> 0 .. MaxValue], arg \in 0 .. MaxValue, buf \in PriorVectors(len) :
              /\ input = <<(<<vec, arg>>), buf>>
              /\ todo = LoopNest(len, 1, 0)

\* matmul(A, B, C) or matmul(A, B)
InitMatmul ==
    /\ kernel = "matmul"
    /\ \E rows \in {1, MaxLen}, inner \in {0, MaxLen} :
          \E lhs \in Matrices(rows, inner), rhs \in Matrices(inner, MaxLen),
             buf \in PriorMatrices(rows, MaxLen) :
              /\ input = <<(<<lhs, rhs>>), buf>>
              /\ todo = LoopNest(rows, MaxLen, inner)

\* gucopy(a, b), or gucopy(a) as make_a_copy calls it
InitGucopy ==
    /\ kernel = "gucopy"
    /\ \E len \in 0 .. MaxLen :
          \E arr \in Matrices(len, len), buf \in PriorMatrices(len, len) :
              /\ input = <<(<<arr>>), buf>>
              /\ todo = LoopNest(len, len, 0)

InitGufunc ==
    /\ NoOthers
    /\ (InitG \/ InitMatmul \/ InitGucopy)
    /\ mem = [args |-> input[1], out |-> input[2], stored |-> {}]
    /\ status = "running"

\* result[i] = x[i] + y
GStep ==
    /\ kernel = "g"
    /\ status = "running"
    /\ todo # << >>
    /\ LET i == Head(todo)[1]
       IN  mem' = [mem EXCEPT !.out[i] = mem.args[1][i] + mem.args[2],
                              !.stored = @ \cup {<<i>>}]
    /\ todo' = Tail(todo)
    /\ UNCHANGED <<ppVars, cfVars, hVars, jitVars, kernel, input, status>>

\* C[i, j] = 0, or C[i, j] += A[i, k] * B[k, j]
MatmulStep ==
    /\ kernel = "matmul"
    /\ status = "running"
    /\ todo # << >>
    /\ LET i == Head(todo)[1]
           j == Head(todo)[2]
           k == Head(todo)[3]
       IN  IF k = 0
           THEN mem' = [mem EXCEPT !.out[i][j] = Reset(@),
                                   !.stored = @ \cup {<<i, j>>}]
           ELSE mem' = [mem EXCEPT !.out[i][j] =
                                       @ + FMul(mem.args[1][i][k], mem.args[2][k][j]),
                                   !.stored = @ \cup {<<i, j>>}]
    /\ todo' = Tail(todo)
    /\ UNCHANGED <<ppVars, cfVars, hVars, jitVars, kernel, input, status>>

\* b[i, j] = a[i, j]
GucopyStep ==
    /\ kernel = "gucopy"
    /\ status = "running"
    /\ todo # << >>
    /\ LET i == Head(todo)[1]
           j == Head(todo)[2]
           from == CopiedFrom(i, j)
       IN  mem' = [mem EXCEPT !.out[i][j] = mem.args[1][from[1]][from[2]],
                              !.stored = @ \cup {<<i, j>>}]
    /\ todo' = Tail(todo)
    /\ UNCHANGED <<ppVars, cfVars, hVars, jitVars, kernel, input, status>>

\* the loops are exhausted: the gufunc returns its output array
GufuncReturn ==
    /\ kernel \in {"g", "matmul", "gucopy"}
    /\ status = "running"
    /\ todo = << >>
    /\ status' = "returned"
    /\ UNCHANGED <<ppVars, cfVars, hVars, jitVars, kernel, input, mem, todo>>

NextGufunc == GStep \/ MatmulStep \/ GucopyStep \/ GufuncReturn

SpecGufunc == InitGufunc /\ [][NextGufunc]_vars

(* ====================== properties: pressure ========================= *)

Rows == 0 .. shape[1] - 1

Cols == 0 .. shape[2] - 1

LastRow == shape[1] - 1

LastCol == shape[2] - 1

Interior == (1 .. shape[1] - 2) \X (1 .. shape[2] - 2)

\* p[i,0] == p[i,1] for every row i
LeftMirrored(g) == \A i \in Rows : g[<<i, 0>>] = g[<<i, 1>>]

\* the Jacobi value of an interior cell c from the copy pnv
Jacobi(pnv, bv, c) ==
    FMul(Quarter, pnv[<<c[1], c[2] + 1>>] + pnv[<<c[1], c[2] - 1>>]
                  + pnv[<<c[1] + 1, c[2]>>] + pnv[<<c[1] - 1, c[2]>>]) - bv[c]

\* a sequence backwards
Reverse(sq) == [k \in 1 .. Len(sq) |-> sq[Len(sq) + 1 - k]]

\* C1: explicit-loop pressure_poisson: while every convergence check so far
\* gave a relative change above l2_target, the loop goes on up to sweep 500
\* and nothing is raised; a call all of whose checks were above l2_target
\* returns after exactly 501 sweeps (n = 0..500).
C1_CapRespected ==
    (impl = "jit" /\ checks = above) =>
        /\ pc # "raised"
        /\ sweeps = n
        /\ sweeps <= Cap + 1
        /\ (pc = "loop" /\ sweeps <= Cap => JitGuard)
        /\ (pc = "returned" => sweeps = Cap + 1)

C1_Witness ==
    /\ impl = "jit"
    /\ pc = "returned"
    /\ checks = above
    /\ checks = Cap \div CheckEvery + 1
    /\ sweeps = Cap + 1

\* C2: NumPy pressure_poisson performs at most 501 sweeps for every p, b and
\* l2_target.
C2_NpAtMost501Sweeps == impl = "numpy" => sweeps <= Cap + 1

\* C3: NumPy pressure_poisson: after every sweep, and so on return,
\* p[i,0] == p[i,1] for every row i and p[-1,j] == 0 for every column j.
C3_NpBoundaryHolds ==
    (impl = "numpy" /\ sweeps > 0) =>
        /\ LeftMirrored(p)
        /\ \A j \in Cols : p[<<LastRow, j>>] = 0

C3_Witness ==
    /\ impl = "numpy"
    /\ pc = "returned"
    /\ sweeps > 1
    /\ shape = <<MaxDim, MaxDim>>
    /\ ~LeftMirrored(p0)
    /\ p0[<<LastRow, 0>>] # 0
    /\ p[<<0, 0>>] # 0

\* C4: explicit-loop pressure_poisson: after every sweep, and on return, the
\* four boundary conditions hold together, corners included: p[i,0] == p[i,1]
\* and p[i,-1] == 0 for every row i, p[0,j] == p[1,j] and p[-1,j] == p[-2,j]
\* for every column j.
C4_JitBoundaryHolds ==
    (impl = "jit" /\ sweeps > 0) =>
        /\ LeftMirrored(p)
        /\ \A i \in Rows : p[<<i, LastCol>>] = 0
        /\ \A j \in Cols : p[<<0, j>>] = p[<<1, j>>]
        /\ \A j \in Cols : p[<<LastRow, j>>] = p[<<LastRow - 1, j>>]

C4_Witness ==
    /\ impl = "jit"
    /\ pc = "returned"
    /\ sweeps > 1
    /\ shape = <<MaxDim, MaxDim>>
    /\ ~LeftMirrored(p0)
    /\ p0[<<0, LastCol>>] # 0
    /\ p0[<<0, 1>>] # p0[<<1, 1>>]
    /\ p[<<0, 0>>] # 0
    /\ p[<<LastRow, 0>>] # 0

\* C5: explicit-loop pressure_poisson: a sweep whose index n is not a
\* multiple of 10 leaves iter_diff as it was, and the loop ends before the cap
\* only by returning with a recomputed iter_diff at or below l2_target.
C5_CheckEveryTenth ==
    [][impl = "jit" =>
        /\ (sweeps' = sweeps + 1 /\ n % CheckEvery # 0 => iter_diff' = iter_diff)
        /\ (pc = "loop" /\ pc' # "loop" /\ n <= Cap =>
                /\ pc' = "returned"
                /\ iter_diff.tag = "val"
                /\ ~Above(iter_diff, l2_target))]_vars

\* C6: one sweep is a Jacobi step: after it every interior cell holds
\* 0.25*(pn[i,j+1]+pn[i,j-1]+pn[i+1,j]+pn[i-1,j]) - b[i,j] with pn the copy
\* taken at its start, and visiting the cells in the opposite order writes the
\* same interior.
C6_JacobiStep ==
    sweeps > 0 =>
        /\ \A c \in Interior : p[c] = Jacobi(pn, b, c)
        /\ LET cells == LoopCells(1, shape[1] - 1, 1, shape[2] - 1)
           IN  JitInterior(pn, pn, b, cells) = JitInterior(pn, pn, b, Reverse(cells))

C6_Witness ==
    /\ sweeps > 1
    /\ impl = "jit"
    /\ shape = <<MaxDim, MaxDim>>
    /\ p[<<1, 1>>] # pn[<<1, 1>>]
    /\ p[<<1, 1>>] # p[<<2, 2>>]
    /\ b[<<1, 2>>] # 0


(* ==================== properties: velocity_term ====================== *)

\* the source value of cell (i, j), by index
SourceAt(uv, vv, rhov, dtv, dxv, i, j) ==
    LET ux == uv[<<i, j + 1>>] - uv[<<i, j - 1>>]
        vy == vv[<<i + 1, j>>] - vv[<<i - 1, j>>]
        uy == uv[<<i + 1, j>>] - uv[<<i - 1, j>>]
        vx == vv[<<i, j + 1>>] - vv[<<i, j - 1>>]
    IN  FMul(FDiv(FMul(rhov, dxv), 16 * One),
             FMul(FDiv(2 * One, dtv), ux + vy)
             - FMul(FMul(FDiv(2 * One, dxv), uy), vx)
             - FDiv(FMul(ux, ux), dxv)
             - FDiv(FMul(vy, vy), dxv))

AllZero(g) == \A c \in DOMAIN g : g[c] = 0

\* C7: velocity_term writes into every interior cell b[i,j] the value
\* rho*dx/16 * ((2/dt)*(u[i,j+1]-u[i,j-1]+v[i+1,j]-v[i-1,j])
\* - (2/dx)*(u[i+1,j]-u[i-1,j])*(v[i,j+1]-v[i,j-1])
\* - (u[i,j+1]-u[i,j-1])**2/dx - (v[i+1,j]-v[i-1,j])**2/dx),
\* first index the row, second the column.
C7_SourceFormula ==
    stage = "vt_done" =>
        \A c \in Interior : b[c] = SourceAt(u, v, rho, dt, dx, c[1], c[2])

C7_Witness ==
    /\ stage = "vt_done"
    /\ shape = <<3, MaxDim>>
    /\ b[<<1, 1>>] # b[<<1, 2>>]
    /\ b[<<1, 1>>] # b0[<<1, 1>>]
    /\ u[<<2, 1>>] - u[<<0, 1>>] # u[<<1, 2>>] - u[<<1, 0>>]
    /\ v[<<2, 1>>] # v[<<0, 1>>]
    /\ v[<<1, 2>>] # v[<<1, 0>>]

\* C9: for all-zero u and v, velocity_term returns a b whose interior cells
\* are all zero.
C9_ZeroVelocityZeroSource ==
    (stage = "vt_done" /\ AllZero(u) /\ AllZero(v)) => \A c \in Interior : b[c] = 0

C9_Witness ==
    /\ stage = "vt_done"
    /\ AllZero(u)
    /\ AllZero(v)
    /\ shape = <<MaxDim, MaxDim>>
    /\ \A c \in Interior : b0[c] # 0
    /\ rho = 2 * One
    /\ dx = 2 * One


\* the outermost ring of a grid
Ring == {c \in Cells(shape[1], shape[2]) : c \notin Interior}

InCavity == stage \notin {"pressure_only", "vt_call", "vt_done"}

\* C8: velocity_term leaves the outermost ring of b as it was and does not
\* modify u or v; inside cavity_flow, where b starts as zeros, the ring of b
\* is zero at every timestep.
C8_SourceFrame ==
    /\ stage = "vt_done" =>
          /\ \A c \in Ring : b[c] = b0[c]
          /\ u = un /\ v = vn
    /\ InCavity =>
          /\ \A c \in Ring : b[c] = 0
          /\ (stage = "pressure" => u = un /\ v = vn)

C8_Witness ==
    /\ stage = "done"
    /\ step = MaxNt
    /\ shape = <<MaxDim, 3>>
    /\ \E c \in Interior : b[c] # 0
    /\ \E c \in Interior : u[c] # 0

(* ===================== properties: cavity_flow ======================= *)

\* the statements of one timestep, in the order of the source text
Body == <<"snapshot", "source", "pressure", "u", "v", "bc">>

\* the updated u of cell (i, j), by index
UAt(unv, vnv, pv, i, j) ==
    unv[<<i, j>>]
    - FMul(FDiv(dt, dx),
           FMul(unv[<<i, j>>], unv[<<i, j>>] - unv[<<i, j - 1>>])
           + FMul(vnv[<<i, j>>], unv[<<i, j>>] - unv[<<i - 1, j>>])
           + FMul(FDiv(One, FMul(2 * One, rho)), pv[<<i, j + 1>>] - pv[<<i, j - 1>>]))
    + FMul(FDiv(FMul(nu, dt), FMul(dx, dx)),
           unv[<<i, j + 1>>] + unv[<<i, j - 1>>] + unv[<<i + 1, j>>] + unv[<<i - 1, j>>]
           - 4 * unv[<<i, j>>])

\* the updated v of cell (i, j), by index
VAt(unv, vnv, pv, i, j) ==
    vnv[<<i, j>>]
    - FMul(FDiv(dt, dx),
           FMul(unv[<<i, j>>], vnv[<<i, j>>] - vnv[<<i, j - 1>>])
           + FMul(vnv[<<i, j>>], vnv[<<i, j>>] - vnv[<<i - 1, j>>])
           + FMul(FDiv(One, FMul(2 * One, rho)), pv[<<i + 1, j>>] - pv[<<i - 1, j>>]))
    + FMul(FDiv(FMul(nu, dt), FMul(dx, dx)),
           vnv[<<i, j + 1>>] + vnv[<<i, j - 1>>] + vnv[<<i + 1, j>>] + vnv[<<i - 1, j>>]
           - 4 * vnv[<<i, j>>])

\* C10: cavity_flow returns after exactly nt timesteps; in every timestep
\* the stages run in the order snapshot, velocity_term, pressure_poisson,
\* update of u, update of v, boundary conditions, none skipped; b is the
\* source of the velocities not yet updated, p is relaxed against that b, u
\* and v are updated from the snapshots and the new p; and the p a timestep
\* returns is the p the next timestep passes to pressure_poisson.
C10_TimestepOrder ==
    InCavity =>
        /\ step <= nt
        /\ (stage = "done" => step = nt)
        /\ Len(log) <= Len(Body)
        /\ log = SubSeq(Body, 1, Len(log))
        /\ (stage \in {"snapshot", "source", "pressure", "u", "v", "bc"} =>
                Len(log) < Len(Body) /\ stage = Body[Len(log) + 1])
        /\ (stage = "for" /\ step > 0 => log = Body)
        /\ (Len(log) \in 1 .. 3 => un = u /\ vn = v)
        /\ (Len(log) >= 2 =>
                \A c \in Interior : b[c] = SourceAt(un, vn, rho, dt, dx, c[1], c[2]))
        /\ (Len(log) >= 3 =>
                /\ b0 = b
                /\ sweeps >= 1
                /\ p = NpBody(pn, b, shape[1], shape[2])
                /\ p = pRet)
        /\ (Len(log) >= 4 => \A c \in Interior : u[c] = UAt(un, vn, p, c[1], c[2]))
        /\ (Len(log) >= 5 => \A c \in Interior : v[c] = VAt(un, vn, p, c[1], c[2]))
        /\ (pc \in {"loop", "returned"} => p0 = pRet /\ l2_target = rtol)

C10_Witness ==
    /\ stage = "done"
    /\ nt = MaxNt
    /\ step = nt
    /\ log = Body
    /\ shape = <<MaxDim, MaxDim>>
    /\ sweeps > 1
    /\ p # p0
    /\ \E c \in Interior : u[c] # 0 /\ v[c] # 0 /\ b[c] # 0

\* C11: after every timestep of cavity_flow (and from then on) v is 0 on all
\* four edges; u is 0 on row 0 and, in every row but the last, on columns 0
\* and -1; u is 1 on the whole last row, its two corner cells included.
C11_LidBoundary ==
    (InCavity /\ step >= 1) =>
        /\ \A j \in Cols : v[<<0, j>>] = 0 /\ v[<<LastRow, j>>] = 0
        /\ \A i \in Rows : v[<<i, 0>>] = 0 /\ v[<<i, LastCol>>] = 0
        /\ \A j \in Cols : u[<<0, j>>] = 0
        /\ \A i \in Rows \ {LastRow} : u[<<i, 0>>] = 0 /\ u[<<i, LastCol>>] = 0
        /\ \A j \in Cols : u[<<LastRow, j>>] = One

C11_Witness ==
    /\ stage = "done"
    /\ step = 1
    /\ un[<<0, 1>>] # 0
    /\ vn[<<LastRow, 1>>] # 0
    /\ u[<<0, 1>>] = 0
    /\ u[<<LastRow, 0>>] = One
    /\ u[<<LastRow, LastCol>>] = One
    /\ \E c \in Interior : u[c] # 0 /\ v[c] # 0

\* the value of v at cell (i, j) if un advected both differences of v
VAtByU(unv, vnv, pv, i, j) ==
    vnv[<<i, j>>]
    - FMul(FDiv(dt, dx),
           FMul(unv[<<i, j>>], vnv[<<i, j>>] - vnv[<<i, j - 1>>])
           + FMul(unv[<<i, j>>], vnv[<<i, j>>] - vnv[<<i - 1, j>>])
           + FMul(FDiv(One, FMul(2 * One, rho)), pv[<<i + 1, j>>] - pv[<<i - 1, j>>]))
    + FMul(FDiv(FMul(nu, dt), FMul(dx, dx)),
           vnv[<<i, j + 1>>] + vnv[<<i, j - 1>>] + vnv[<<i + 1, j>>] + vnv[<<i - 1, j>>]
           - 4 * vnv[<<i, j>>])

\* C12 (as amended): in the update of v the previous u (un) multiplies the
\* x-difference vn[i,j]-vn[i,j-1] and the previous v (vn) multiplies the
\* y-difference vn[i,j]-vn[i-1,j].
C12_AdvectionOfV ==
    (InCavity /\ Len(log) >= 5) =>
        \A c \in Interior : v[c] = VAt(un, vn, p, c[1], c[2])

\* C12 (as stated): in the update of v the previous u (un) multiplies both
\* the x-difference and the y-difference of v; vn advects nothing.
C12_AdvectionByUOnly ==
    (InCavity /\ Len(log) >= 5) =>
        \A c \in Interior : v[c] = VAtByU(un, vn, p, c[1], c[2])

C12_Witness ==
    /\ stage = "bc"
    /\ \E c \in Interior :
          /\ un[c] # vn[c]
          /\ vn[c] # vn[<<c[1] - 1, c[2]>>]
          /\ v[c] = VAt(un, vn, p, c[1], c[2])
          /\ v[c] # VAtByU(un, vn, p, c[1], c[2])

(* =============== properties: two calls of pressure_poisson =========== *)

\* C13: for every p, b and tolerance the explicit-loop pressure_poisson and
\* the NumPy pressure_poisson return the same pressure field after the same
\* number of sweeps.
C13_SameAsNumpy ==
    (call = 2 /\ impl = "numpy" /\ pc = "returned") =>
        /\ p = first.p
        /\ sweeps = first.sweeps

\* iter_diff < l2_target
StrictlyBelow(d, l2) ==
    /\ d.tag = "val"
    /\ l2[1] > 0
    /\ d.num * l2[2] * l2[2] < l2[1] * l2[1] * d.den

Positions == 1 .. Len(events)

\* the value of a after the first k cells
RECURSIVE GlobalAfter(_)
GlobalAfter(k) ==
    IF k = 0 THEN 5
    ELSE IF events[k].kind = "assign" THEN events[k].val
    ELSE GlobalAfter(k - 1)

\* the first call with the argument type of the call at position k
FirstCall(k) ==
    CHOOSE f \in 1 .. k :
        /\ events[f].kind = "call" /\ events[f].ty = events[k].ty
        /\ \A g \in 1 .. f - 1 : ~(events[g].kind = "call" /\ events[g].ty = events[k].ty)

\* the cell at which the version run by the call at position k was built:
\* the last recompile since the first call with its type, else that call
BuiltAt(k) ==
    LET rs == {r \in FirstCall(k) .. k : events[r].kind = "recompile"}
    IN  IF rs = {} THEN FirstCall(k) ELSE CHOOSE r \in rs : \A q \in rs : q <= r

\* C15: a call of add_to_a returns its argument plus the value a had when
\* the version run was compiled (at the first call, or at the last
\* recompile() since), whatever a is at call time: after add_to_a(7) with
\* a = 5, a = 12 leaves add_to_a(7) == 12 until recompile(), then it is 19.
C15_GlobalFrozen ==
    /\ \A k \in Positions :
          events[k].kind = "call" => events[k].val = events[k].arg + GlobalAfter(BuiltAt(k))
    /\ \A k \in Positions :
          (/\ events[k].kind = "call" /\ events[k].ty = "int64" /\ events[k].arg = 7
           /\ k > 1
           /\ events[1] = Event("call", "int64", 7, 12)
           /\ \A r \in 1 .. k : events[r].kind # "recompile")
          => events[k].val = 12

C15_Witness ==
    /\ Len(events) = 5
    /\ events[1] = Event("call", "int64", 7, 12)
    /\ events[2] = Event("assign", "none", 0, 12)
    /\ events[3] = Event("call", "int64", 7, 12)
    /\ events[4].kind = "recompile"
    /\ events[5] = Event("call", "int64", 7, 19)
    /\ global_a = 12

(* ======================= properties: my_clip ========================= *)

SourcesDone(i) ==
    {j \in DOMAIN input : j # i /\ \A k \in 1 .. Len(todo) : todo[k] # <<i, j>>}

\* the sum of m_j / r_ij over the sources js of target i
RECURSIVE PotentialFrom(_, _)
PotentialFrom(i, js) ==
    IF js = {} THEN 0
    ELSE LET j == CHOOSE q \in js : TRUE
         IN  FDiv(input[j].m, Distance(input[i], input[j])) + PotentialFrom(i, js \ {j})

\* two different particles at the same position
SomeCoincide ==
    \E i, j \in DOMAIN input :
        i # j /\ input[i].x = input[j].x /\ input[i].y = input[j].y /\ input[i].z = input[j].z

\* C17: direct_sum, in both versions, adds to phi of every particle i the
\* sum over the other particles j # i of m_j / r_ij and changes nothing
\* else; the pair i == j is never evaluated, so the only division by zero is
\* that of two different particles at one position; both versions run the
\* pairs in the same order and give the same increments.
C17_DirectSum ==
    kernel \in {"direct_sum_list", "direct_sum_array"} =>
        /\ \A i \in DOMAIN input :
              /\ mem[i].phi = input[i].phi + PotentialFrom(i, SourcesDone(i))
              /\ mem[i].x = input[i].x /\ mem[i].y = input[i].y /\ mem[i].z = input[i].z
              /\ mem[i].m = input[i].m
        /\ (status = "returned" =>
                \A i \in DOMAIN input : SourcesDone(i) = DOMAIN input \ {i})
        /\ (status = "raised" => SomeCoincide /\ Head(todo)[1] # Head(todo)[2])
        /\ SelectSeq(todo, LAMBDA pr : pr[1] # pr[2])
               = SelectSeq(PairsFrom(1, 1, Len(input), FALSE),
                           LAMBDA pr : pr[2] \notin SourcesDone(pr[1]))

C17_Witness ==
    /\ kernel = "direct_sum_array"
    /\ status = "returned"
    /\ Len(input) = MaxParticles
    /\ ~SomeCoincide
    /\ \E i, j \in DOMAIN input : input[i].m # input[j].m
    /\ \A i \in DOMAIN input : mem[i].phi > input[i].phi /\ input[i].phi > 0

\* C18: create_n_random_particles(n, m, domain) returns exactly n particles,
\* each of mass m and potential 0, with each of x, y, z in [0, domain)
C18_CreateParticles ==
    (kernel = "create_n_random_particles" /\ status = "returned") =>
        /\ Len(mem) = input[1].n
        /\ \A i \in DOMAIN mem :
              /\ mem[i].m = input[1].m
              /\ mem[i].phi = 0
              /\ \A c \in {mem[i].x, mem[i].y, mem[i].z} :
                    0 <= c /\ c < input[1].domain

\* C18 witness: a returned array of several particles of nonzero mass, one
\* of them off the origin and one at the largest coordinate below domain
C18_Witness ==
    /\ kernel = "create_n_random_particles"
    /\ status = "returned"
    /\ Len(mem) = MaxLen
    /\ input[1].m # 0
    /\ input[1].domain > One
    /\ \E i \in DOMAIN mem : mem[i].x > 0 /\ mem[i].y = 0
    /\ \E i \in DOMAIN mem : mem[i].z = input[1].domain - MaxCoord

\* C19: gucopy returns b with b[i, j] = a[i, j] for every element of a
\* square a and leaves a as it was, so the two arrays make_a_copy returns
\* are equal
C19_Gucopy ==
    (kernel = "gucopy" /\ status = "returned") =>
        /\ Len(mem.out) = Len(input[1][1])
        /\ \A i \in DOMAIN input[1][1] : \A j \in DOMAIN input[1][1][i] :
              mem.out[i][j] = input[1][1][i][j]
        /\ mem.args = input[1]
        /\ mem.out = mem.args[1]

\* C19 witness: a returned copy of an asymmetric matrix into a buffer that
\* held something else
C19_Witness ==
    /\ kernel = "gucopy"
    /\ status = "returned"
    /\ Len(input[1][1]) = MaxLen
    /\ input[1][1][1][2] # input[1][1][2][1]
    /\ \A i \in 1 .. MaxLen : \A j \in 1 .. MaxLen : input[2][i][j] # input[1][1][i][j]

\* the indices of an output array
OutputIndices ==
    IF kernel = "g"
    THEN {<<i>> : i \in DOMAIN input[2]}
    ELSE UNION {{<<i, j>> : j \in DOMAIN input[2][i]} : i \in DOMAIN input[2]}

\* sum of A[i, k'] * B[k', j] for k' = 1 .. k, added in that order
RECURSIVE DotProduct(_, _, _, _, _)
DotProduct(lhs, rhs, i, j, k) ==
    IF k = 0 THEN 0
    ELSE DotProduct(lhs, rhs, i, j, k - 1) + FMul(lhs[i][k], rhs[k][j])

\* the result as a function of the arguments alone
ResultOf(name, args, rows, cols) ==
    IF name = "g" THEN [i \in 1 .. rows |-> args[1][i] + args[2]]
    ELSE IF name = "matmul"
    THEN [i \in 1 .. rows |-> [j \in 1 .. cols |->
              DotProduct(args[1], args[2], i, j, Len(args[2]))]]
    ELSE [i \in 1 .. rows |-> [j \in 1 .. cols |-> args[1][i][j]]]

\* C20: g, matmul and gucopy assign every element of the output array, and
\* what they return is a function of the arguments alone, whatever the
\* output buffer held before the call
C20_OutputAssigned ==
    (kernel \in {"g", "matmul", "gucopy"} /\ status = "returned") =>
        /\ mem.stored = OutputIndices
        /\ mem.out = ResultOf(kernel, input[1], Len(input[2]),
                              IF kernel = "g" \/ input[2] = << >> THEN 0 ELSE Len(input[2][1]))

\* C20 witness: matmul has returned a nonzero product into a buffer that
\* held garbage in every element
C20_Witness ==
    /\ kernel = "matmul"
    /\ status = "returned"
    /\ Len(input[1][2]) = MaxLen
    /\ \A i \in DOMAIN input[2] : \A j \in DOMAIN input[2][i] : input[2][i][j] \in Garbage
    /\ \E i \in DOMAIN mem.out : \E j \in DOMAIN mem.out[i] : mem.out[i][j] > 0

\* C21: NumPy pressure_poisson: a sweep whose index (the number of sweeps
\* run before it) is not a multiple of 10 leaves iter_diff as it was and
\* does not end the loop
C21_NpCheckEveryTenth ==
    [][(impl = "numpy" /\ sweeps' = sweeps + 1 /\ sweeps % CheckEvery # 0) =>
           /\ iter_diff' = iter_diff
           /\ checks' = checks]_vars

\* C22: pressure_poisson never raises, also when sum(pn**2) is zero at a
\* convergence check
C22_NeverRaises == pc # "raised"

\* C23: pressure_poisson modifies only p: during and after a call b is the
\* grid that was passed in; the caller's p holds the relaxed values as soon
\* as a sweep has run (it is p as passed only before the first sweep); and in
\* cavity_flow the array returned is the caller's p, with u and v untouched
\* by the call
C23_OnlyPModified ==
    /\ pc \in {"loop", "returned", "raised"} =>
          /\ b = b0
          /\ (sweeps = 0 => p = p0)
          /\ (sweeps > 0 => \A c \in Interior : p[c] = Jacobi(pn, b, c))
          /\ (sweeps = 1 => pn = p0)
          /\ (InCavity => u = un /\ v = vn)
    /\ (InCavity /\ Len(log) >= 3) => (pRet = p /\ b = b0)

\* C23 witness: inside cavity_flow a call that ran several sweeps on a
\* nonzero b has returned with the caller's p changed
C23_Witness ==
    /\ InCavity
    /\ Len(log) = 3
    /\ sweeps > 1
    /\ p # p0
    /\ \E c \in Interior : b[c] # 0

C25_SweepsOneModTen ==
    (impl = "jit" /\ pc = "returned") => sweeps \in {10 * k + 1 : k \in 0 .. 50}

\* C25 amended: that holds for the tolerances with l2_target + 1 > l2_target;
\* for a tolerance that absorbs the 1 the call returns p after no sweep
C25_SweepsOneModTenOrNone ==
    (impl = "jit" /\ pc = "returned") =>
        IF iter_diff.tag = "same"
        THEN sweeps = 0 /\ p = p0
        ELSE sweeps \in {10 * k + 1 : k \in 0 .. 50}

\* C25 witness: a call has returned after 11 sweeps, on a value computed at
\* the check of sweep 10
C25_Witness ==
    /\ impl = "jit"
    /\ pc = "returned"
    /\ sweeps = 11
    /\ checks = 2
    /\ iter_diff.tag = "val"

\* C26: within a timestep of cavity_flow the source b is computed from
\* velocities equal to the snapshots un, vn, and the interior of u and then
\* of v is computed from un, vn (and p) alone: the v update does not see the
\* u written just before it
C26_ReadsSnapshots ==
    InCavity =>
        /\ (Len(log) = 1 => un = u /\ vn = v)
        /\ (Len(log) \in 2 .. 3 =>
                /\ un = u /\ vn = v
                /\ \A c \in Interior : b[c] = SourceAt(un, vn, rho, dt, dx, c[1], c[2]))
        /\ (Len(log) = 4 =>
                /\ vn = v
                /\ \A c \in Interior : u[c] = UAt(un, vn, p, c[1], c[2]))
        /\ (Len(log) = 5 =>
                \A c \in Interior : /\ u[c] = UAt(un, vn, p, c[1], c[2])
                                    /\ v[c] = VAt(un, vn, p, c[1], c[2]))

\* C26 witness: v has been updated in a timestep whose u update changed u at
\* a cell where reading the new u would have given another v
C26_Witness ==
    /\ InCavity
    /\ Len(log) = 5
    /\ \E c \in Interior :
          /\ u[c] # un[c]
          /\ VAt(u, vn, p, c[1], c[2]) # VAt(un, vn, p, c[1], c[2])
          /\ v[c] = VAt(un, vn, p, c[1], c[2])

\* Python's max(x, y) and min(x, y): the first argument unless the second is
\* greater (smaller)
PyMax(x, y) == IF Less(x, y) THEN y ELSE x

PyMin(x, y) == IF Less(y, x) THEN y ELSE x

=============================================================================
